---- MODULE Spec2Model ----
(***************************************************************************)
(* A model of src/montecarlo.py: the MonteCarlo class (Metropolis sweeps   *)
(* over a 2-D spin lattice).                                               *)
(*                                                                         *)
(* Numbers.  Spins, J, epsilon, k_B and T are integers.  E_flip is then an *)
(* (even) integer, computed by numpy, so that the division by k_B*T = 0   *)
(* in flip_decider yields -inf or nan and not a ZeroDivisionError.  A      *)
(* uniform draw u in [0, 1) is the fraction k / UDen, k in 0..UDen-1.      *)
(* J is kept as the 4-vector it is broadcast to against the neighbours     *)
(* (left, right, up, down); a scalar J is a vector of four equal entries.  *)
(***************************************************************************)
EXTENDS Integers, Sequences, FiniteSets, TLC

\* ------------------------------------------------------------- bounds
MaxCells == 4      \* lattices have at most this many cells (rows * cols)
MaxN == 2          \* the largest integer sweep count passed to magnetization_Ns
UDen == 3          \* uniform draws are k / UDen, k in 0 .. UDen - 1
MaxTs == 2         \* the longest temperature sequence passed to magnetization_Ts
MaxTsCells == 2    \* lattices of the magnetization_Ts runs have at most this many cells
MaxE == 8          \* flip energies handed to flip_decider on its own: -MaxE .. MaxE

\* ------------------------------------------------------ input domains
Shapes(cells) == {d \in (1..cells) \X (1..cells) : d[1] * d[2] <= cells}
Sites(dim) == (0..(dim[1] - 1)) \X (0..(dim[2] - 1))
Broadcast(j) == <<j, j, j, j>>
\* scalar couplings of either sign, and one direction-dependent coupling
Couplings == {Broadcast(1), Broadcast(-1), <<1, -1, 1, 1>>}
Fields == {0, 1}
\* temperatures of the instance; 2 * E_flip / (k_B * T) is integral for 1 and 2
Temps == {0, 2}
ProbeTemps == {0, 1, 2}
Draws == 0..(UDen - 1)
PositiveDraws == 1..(UDen - 1)
BCs == {"OBC", "PBC", "XBC"}
\* sweep counts as passed, in halves: -1/2, 0, 1/2, 1, 3/2 and the integers
\* from 2 to MaxN
NArgs == ((-1)..3) \cup {2 * m : m \in 2..MaxN}

AllUp(dim) == [s \in Sites(dim) |-> 1]
\* a grid whose cells differ in magnitude (any ndarray is accepted)
Mixed(dim) == [s \in Sites(dim) |-> IF (s[1] + s[2]) % 2 = 0 THEN -2 ELSE 1]
InitLattices(dim) == {AllUp(dim), Mixed(dim)}

\* ------------------------------------------------------------ helpers
RECURSIVE SumSeq(_)
SumSeq(s) == IF s = <<>> THEN 0 ELSE s[1] + SumSeq(Tail(s))

RECURSIVE Gcd(_, _)
Gcd(a, b) == IF b = 0 THEN a ELSE Gcd(b, a % b)

Abs(a) == IF a < 0 THEN -a ELSE a

\* range(dimen[0]) x range(dimen[1]) in the order of the nested for loops
RowMajor(dim) == [q \in 1..(dim[1] * dim[2]) |-> <<(q - 1) \div dim[2], (q - 1) % dim[2]>>]

\* ndarray.sum() over the whole grid
SumCells(lat, dim) == SumSeq([q \in 1..(dim[1] * dim[2]) |-> lat[RowMajor(dim)[q]]])

\* (lattice > 0).sum(), (lattice < 0).sum(), lattice.sum()
summary(lat, dim) ==
    <<Cardinality({s \in Sites(dim) : lat[s] > 0}),
      Cardinality({s \in Sites(dim) : lat[s] < 0}),
      SumCells(lat, dim)>>

\* int(n) of a sweep count given in halves: truncation toward zero
IntOfCeil(n2) == (n2 + 1) \div 2
IntOf(n2) == IF n2 >= 0 THEN n2 \div 2 ELSE -((-n2) \div 2)

\* M / n (true division), as the fraction in lowest terms
TrueDiv(m, d) == LET g == Gcd(Abs(m), d) IN <<m \div g, d \div g>>

\* --------------------------------------------------- neighbour lookup
\* An index expression of the sweep: a pair as written in the code (it may
\* hold -1), or NoSite where the code appends the literal 0.
NoSite == <<>>

\* numpy's reading of one index along an axis of length len
NpNorm(a, len) == IF a < 0 THEN a + len ELSE a
NpValid(idx, dim) ==
    \/ idx = NoSite
    \/ /\ NpNorm(idx[1], dim[1]) \in 0..(dim[1] - 1)
       /\ NpNorm(idx[2], dim[2]) \in 0..(dim[2] - 1)
NpCell(idx, dim) == <<NpNorm(idx[1], dim[1]), NpNorm(idx[2], dim[2])>>
NpRead(lat, dim, idx) == IF idx = NoSite THEN 0 ELSE lat[NpCell(idx, dim)]

\* the OBC branch: left, right, up, down
OBCIndices(dim, i, j) ==
    <<IF j = 0 THEN NoSite ELSE <<i, j - 1>>,
      IF j = dim[2] - 1 THEN NoSite ELSE <<i, j + 1>>,
      IF i = 0 THEN NoSite ELSE <<i - 1, j>>,
      IF i = dim[1] - 1 THEN NoSite ELSE <<i + 1, j>> >>

\* the PBC branch: left and up rely on numpy's index -1
PBCIndicesNoWrap(dim, i, j) == <<<<i, j - 1>>, <<i, j + 1>>, <<i - 1, j>>, <<i + 1, j>> >>
PBCIndices(dim, i, j) ==
    <<<<i, j - 1>>,
      IF j = dim[2] - 1 THEN <<i, 0>> ELSE <<i, j + 1>>,
      <<i - 1, j>>,
      IF i = dim[1] - 1 THEN <<0, j>> ELSE <<i + 1, j>> >>

NeighborIndices(bc, dim, i, j) ==
    IF bc = "OBC" THEN OBCIndices(dim, i, j) ELSE PBCIndices(dim, i, j)

\* ------------------------------------------------ flip energy, decider
E_flipNoNegation(Jv, eps, site_spin, neighbor_spin) ==
    2 * (site_spin * SumSeq([a \in 1..4 |-> Jv[a] * neighbor_spin[a]])
         + eps * site_spin)
E_flip(Jv, eps, site_spin, neighbor_spin) ==
    -2 * (site_spin * SumSeq([a \in 1..4 |-> Jv[a] * neighbor_spin[a]])
          + eps * site_spin)

\* floor(10^6 * exp(-h / 2)) for an integer h >= 0
ExpMicro(h) ==
    IF h > 27 THEN 0
    ELSE <<1000000, 606530, 367879, 223130, 135335, 82084, 49787, 30197,
           18315, 11108, 6737, 4086, 2478, 1503, 911, 553, 335, 203, 123,
           74, 45, 27, 16, 10, 6, 3, 2, 1>>[h + 1]

DrawAcceptsStrict(E, kT, u) ==
    IF kT = 0
    THEN IF E = 0 THEN FALSE ELSE u < 0
    ELSE u * 1000000 < UDen * ExpMicro((2 * E) \div kT)

\* u <= np.exp(-E / kT) for E >= 0 and the draw u = k / UDen.
\* kT = 0: -E / 0 is -inf for E > 0 (exp gives 0.0) and nan for E = 0
\* (every comparison with nan is false).  kT > 0: 2 * E / kT is integral
\* for the temperatures used here.
DrawAccepts(E, kT, u) ==
    IF kT = 0
    THEN IF E = 0 THEN FALSE ELSE u <= 0
    ELSE u * 1000000 <= UDen * ExpMicro((2 * E) \div kT)

\* whether flip_decider consumes a draw for this flip energy
NeedsDraw(E) == ~(E < 0)

flip_deciderLenient(E, kB, Temp, u) ==
    IF E <= 0 THEN TRUE ELSE DrawAccepts(E, kB * Temp, u)
flip_decider(E, kB, Temp, u) ==
    IF E < 0 THEN TRUE ELSE DrawAccepts(E, kB * Temp, u)


\* --------------------------------------------------------------- state
VARIABLES
    lattice, dimen, J, epsilon, k_B, T,      \* the instance (__init__)
    pc, op, BC,                              \* where the call in progress stands
    n_i, n_j, spin_ij, spin_neighbor,        \* locals of sweep
    n, k, M,                                 \* locals of magnetization_Ns
    ret, err,                                \* what the call returned or raised
    drawn,                                   \* np.random during the call: "none", "positive", "zero"
    lattice0, visited, accepted, S, argT,    \* history: the grid as constructed; of the call
    pE, pU, pAns,                            \* one call of flip_decider on its own
    Ts, nArg, objs, wpc, wk, wM, slots, arrived,   \* magnetization_Ts: the pool and its tasks
    tsPre, wS, wView                         \* history of the pool's runs

inst == <<lattice, dimen, J, epsilon, k_B, T>>
ctl == <<pc, op, BC>>
sweepLocals == <<n_i, n_j, spin_ij, spin_neighbor>>
nsLocals == <<n, k, M>>
outcome == <<ret, err>>
hist == <<lattice0, visited, accepted, S, argT>>
probe == <<pE, pU, pAns>>
pool == <<Ts, nArg, objs, wpc, wk, wM, slots, arrived>>
poolHist == <<tsPre, wS, wView>>
aux == <<probe, pool, poolHist>>
vars == <<inst, ctl, sweepLocals, nsLocals, outcome, drawn, hist, aux>>

NoValue == <<>>
NoDraw == -1

\* no call in progress, none to report
Quiet ==
    /\ pc = "idle" /\ op = "none" /\ BC = "PBC"
    /\ n_i = 0 /\ n_j = 0 /\ spin_ij = 0 /\ spin_neighbor = <<>>
    /\ n = 0 /\ k = 0 /\ M = 0
    /\ ret = NoValue /\ err = "none"
    /\ drawn = "none"
    /\ visited = <<>> /\ accepted = FALSE /\ S = <<>> /\ argT = NoDraw
    /\ Ts = <<>> /\ nArg = 0 /\ objs = <<>> /\ wpc = <<>> /\ wk = <<>> /\ wM = <<>>
    /\ slots = <<>> /\ arrived = 0
    /\ tsPre = <<>> /\ wS = <<>> /\ wView = <<>>

\* __init__: the fields as given
Construct(dim, lat, Jv, eps, Temp) ==
    /\ dimen = dim /\ lattice = lat /\ J = Jv /\ epsilon = eps
    /\ k_B = 1 /\ T = Temp
    /\ lattice0 = lat
    /\ pU = NoDraw /\ pAns = "unasked"
    /\ Quiet

\* `raise Exception(...)`: the call in progress ends
RaiseTo(e) ==
    /\ err' = e /\ pc' = "done"
    /\ n_i' = 0 /\ n_j' = 0 /\ spin_ij' = 0 /\ spin_neighbor' = <<>>

\* `if BC == 'OBC': ... elif BC == 'PBC': ... else: raise`
RecognizedAny(bc) == TRUE
Recognized(bc) == bc \in {"OBC", "PBC"}

\* the dispatch on BC at the head of sweep
SweepEnter(bc) ==
    /\ visited' = <<>> /\ accepted' = FALSE
    /\ IF Recognized(bc)
       THEN /\ pc' = "sweep_site" /\ err' = "none"
            /\ n_i' = 0 /\ n_j' = 0 /\ spin_ij' = 0 /\ spin_neighbor' = <<>>
       ELSE RaiseTo("InvalidBoundaryCondition")

\* the loop variables after the body ran at (i, j); NoSite when both loops end
NextSiteColumnMajor(dim, i, j) ==
    IF i + 1 < dim[1] THEN <<i + 1, j>>
    ELSE IF j + 1 < dim[2] THEN <<0, j + 1>>
    ELSE NoSite
NextSite(dim, i, j) ==
    IF j + 1 < dim[2] THEN <<i, j + 1>>
    ELSE IF i + 1 < dim[1] THEN <<i + 1, 0>>
    ELSE NoSite

\* `self.lattice[n_i, n_j] *= -1`
FlipWriteUnit(lat, site) == [lat EXCEPT ![site] = IF lat[site] > 0 THEN -1 ELSE 1]
FlipWrite(lat, site) == [lat EXCEPT ![site] = lat[site] * (-1)]

\* `if self.flip_decider(flip_energy): self.lattice[n_i, n_j] *= -1`
FlipIf(lat, site, accept) == IF accept THEN FlipWrite(lat, site) ELSE lat

\* np.random's record of the call after one more decision
Drawn(before, u) ==
    IF u = NoDraw THEN before
    ELSE IF u = 0 THEN "zero"
    ELSE IF before = "zero" THEN "zero" ELSE "positive"

CallSweep(bc) ==
    /\ pc = "idle"
    /\ op' = "sweep" /\ BC' = bc
    /\ SweepEnter(bc)
    /\ UNCHANGED <<inst, nsLocals, ret, drawn, lattice0, S, argT>>
    /\ UNCHANGED aux

\* lines 166-190 and 200-215: read the site and its four neighbours
SweepNeighbors ==
    /\ pc = "sweep_site"
    /\ LET idx == NeighborIndices(BC, dimen, n_i, n_j) IN
       IF \A a \in 1..4 : NpValid(idx[a], dimen)
       THEN /\ spin_ij' = lattice[<<n_i, n_j>>]
            /\ spin_neighbor' = [a \in 1..4 |-> NpRead(lattice, dimen, idx[a])]
            /\ pc' = "sweep_decide"
            /\ UNCHANGED <<n_i, n_j, err>>
       ELSE RaiseTo("IndexError")
    /\ UNCHANGED <<inst, op, BC, nsLocals, ret, drawn, hist>>
    /\ UNCHANGED aux

\* lines 192-196 and 217-221 with the draw u (NoDraw when none is consumed),
\* then the step of the two loops
DecideWith(E, u) ==
    LET site == <<n_i, n_j>>
        accept == flip_decider(E, k_B, T, u)
        lat2 == FlipIf(lattice, site, accept)
        nxt == NextSite(dimen, n_i, n_j)
    IN  /\ drawn' = Drawn(drawn, u)
        /\ lattice' = lat2
        /\ visited' = Append(visited, site)
        /\ accepted' = accept
        /\ spin_ij' = 0 /\ spin_neighbor' = <<>>
        /\ IF nxt # NoSite
           THEN /\ n_i' = nxt[1] /\ n_j' = nxt[2]
                /\ pc' = "sweep_site"
                /\ S' = S
           ELSE /\ n_i' = 0 /\ n_j' = 0
                /\ pc' = IF op = "Ns" THEN "ns_acc" ELSE "done"
                /\ S' = Append(S, SumCells(lat2, dimen))

SweepDecide(U) ==
    /\ pc = "sweep_decide"
    /\ LET E == E_flip(J, epsilon, spin_ij, spin_neighbor) IN
       IF NeedsDraw(E) THEN \E u \in U : DecideWith(E, u) ELSE DecideWith(E, NoDraw)
    /\ UNCHANGED <<dimen, J, epsilon, k_B, T, op, BC, nsLocals, outcome,
                   lattice0, argT>>
    /\ UNCHANGED aux

\* range(n): whether the loop of magnetization_Ns runs once more
LoopContinues(done, count) == done < count

\* M = 0: the accumulator before the first sweep
InitialMTotal(lat, dim) == SumCells(lat, dim)
InitialM(lat, dim) == 0

\* lines 254-259
CallNs(Temp, n2, bc) ==
    /\ pc = "idle"
    /\ op' = "Ns" /\ BC' = bc
    /\ T' = Temp /\ argT' = Temp /\ nArg' = n2
    /\ IF IntOf(n2) < 1
       THEN /\ RaiseTo("InvalidSweepCount")
            /\ UNCHANGED nsLocals
       ELSE /\ n' = IntOf(n2) /\ k' = 0 /\ M' = InitialM(lattice, dimen)
            /\ pc' = "ns_loop"
            /\ UNCHANGED <<sweepLocals, err>>
    /\ UNCHANGED <<lattice, dimen, J, epsilon, k_B, ret, drawn,
                   lattice0, visited, accepted, S>>
    /\ UNCHANGED <<probe, Ts, objs, wpc, wk, wM, slots, arrived, poolHist>>

\* lines 260-261 and 263: the loop head; the next sweep call, or the return
NsLoop ==
    /\ pc = "ns_loop"
    /\ IF LoopContinues(k, n)
       THEN /\ k' = k + 1
            /\ SweepEnter(BC)
            /\ UNCHANGED <<ret, n, M>>
       ELSE /\ ret' = TrueDiv(M, n)
            /\ pc' = "done"
            /\ UNCHANGED <<sweepLocals, nsLocals, err, visited, accepted>>
    /\ UNCHANGED <<inst, op, BC, drawn, lattice0, S, argT>>
    /\ UNCHANGED aux

\* line 262: M += self.summary()[2]
NsAccumulate ==
    /\ pc = "ns_acc"
    /\ M' = M + summary(lattice, dimen)[3]
    /\ pc' = "ns_loop"
    /\ UNCHANGED <<inst, op, BC, sweepLocals, n, k, outcome, drawn, hist>>
    /\ UNCHANGED aux

\* lines 57-58
CallSummary ==
    /\ pc = "idle"
    /\ op' = "summary"
    /\ ret' = summary(lattice, dimen)
    /\ pc' = "done"
    /\ UNCHANGED <<inst, BC, sweepLocals, nsLocals, err, drawn, hist>>
    /\ UNCHANGED aux

\* the caller takes the outcome and goes on; the instance stays as the call left it
Continue ==
    /\ pc = "done"
    /\ pc' = "idle" /\ op' = "none" /\ BC' = "PBC"
    /\ n_i' = 0 /\ n_j' = 0 /\ spin_ij' = 0 /\ spin_neighbor' = <<>>
    /\ n' = 0 /\ k' = 0 /\ M' = 0
    /\ ret' = NoValue /\ err' = "none"
    /\ drawn' = "none"
    /\ visited' = <<>> /\ accepted' = FALSE /\ S' = <<>> /\ argT' = NoDraw
    /\ Ts' = <<>> /\ nArg' = 0 /\ objs' = <<>> /\ wpc' = <<>> /\ wk' = <<>> /\ wM' = <<>>
    /\ slots' = <<>> /\ arrived' = 0
    /\ tsPre' = <<>> /\ wS' = <<>> /\ wView' = <<>>
    /\ UNCHANGED <<inst, lattice0, probe>>

\* ------------------------------------------------------ specifications
Init ==
    \E dim \in Shapes(MaxCells) : \E lat \in InitLattices(dim) :
    \E Jv \in Couplings : \E eps \in Fields : \E Temp \in Temps :
        Construct(dim, lat, Jv, eps, Temp) /\ pE = 0

Next ==
    \/ \E bc \in BCs : CallSweep(bc)
    \/ \E Temp \in Temps : \E n2 \in NArgs : \E bc \in BCs : CallNs(Temp, n2, bc)
    \/ CallSummary
    \/ SweepNeighbors
    \/ SweepDecide(Draws)
    \/ NsLoop
    \/ NsAccumulate
    \/ Continue

Spec == Init /\ [][Next]_vars


\* --- one sweep of the 4 x 4 lattice of +1 spins, zero field, T = 0
AlignedDim == <<4, 4>>
InitAligned ==
    \E Jv \in {Broadcast(1), Broadcast(-1)} :
        Construct(AlignedDim, AllUp(AlignedDim), Jv, 0, 0) /\ pE = 0

NextAligned ==
    \/ \E bc \in BCs : CallSweep(bc)
    \/ SweepNeighbors
    \/ SweepDecide(Draws)

SpecAligned == InitAligned /\ [][NextAligned]_vars

\* --- flip_decider called on its own with a flip energy pE
AskDecider ==
    /\ pAns = "unasked"
    /\ IF NeedsDraw(pE)
       THEN \E u \in Draws :
                /\ pU' = u
                /\ pAns' = IF flip_decider(pE, k_B, T, u) THEN "True" ELSE "False"
       ELSE /\ pU' = NoDraw
            /\ pAns' = IF flip_decider(pE, k_B, T, NoDraw) THEN "True" ELSE "False"
    /\ UNCHANGED <<inst, ctl, sweepLocals, nsLocals, outcome, drawn, hist, pE, pool, poolHist>>

InitDecider ==
    \E e \in (-MaxE)..MaxE : \E Temp \in ProbeTemps :
        Construct(<<1, 1>>, AllUp(<<1, 1>>), Broadcast(1), 0, Temp) /\ pE = e

NextDecider == AskDecider

SpecDecider == InitDecider /\ [][NextDecider]_vars

\* --- sweeps repeated at T = 0 under one boundary policy, every draw positive
SpinLattices(dim) == [Sites(dim) -> {-1, 1}]
NoSelfNeighbor(bc, dim) == bc = "OBC" \/ (bc = "PBC" /\ dim[1] >= 2 /\ dim[2] >= 2)

\* the caller sweeps again with the same selector
SweepAgain ==
    /\ pc = "done" /\ op = "sweep"
    /\ SweepEnter(BC)
    /\ drawn' = "none" /\ S' = <<>>
    /\ UNCHANGED <<inst, op, BC, nsLocals, ret, lattice0, argT, aux>>

InitT0 ==
    \E dim \in Shapes(MaxCells) : \E lat \in SpinLattices(dim) \cup {Mixed(dim)} :
    \E Jv \in {Broadcast(1), Broadcast(-1)} : \E eps \in {-1, 0, 1} :
        Construct(dim, lat, Jv, eps, 0) /\ pE = 0

NextT0 ==
    \/ \E bc \in {"OBC", "PBC"} : NoSelfNeighbor(bc, dimen) /\ CallSweep(bc)
    \/ SweepNeighbors
    \/ SweepDecide(PositiveDraws)
    \/ SweepAgain

SpecT0 == InitT0 /\ [][NextT0]_vars /\ WF_vars(NextT0)

\* --- magnetization_Ts: a pool of len(Ts) worker processes, one task per temperature
\* The bound method self.magnetization_Ns is pickled with each task (chunksize
\* is 1 for len(Ts) tasks on len(Ts) processes), so the task with index w runs
\* on object w of objs, the copy of the instance unpickled in its worker;
\* object 0 is the caller's instance.
SelfOfShared(w) == 0
SelfOf(w) == w

ObjLattice(ref) == IF ref = 0 THEN lattice ELSE objs[ref].lattice
ObjT(ref) == IF ref = 0 THEN T ELSE objs[ref].T
PutObj(ref, lat2, t2) ==
    IF ref = 0
    THEN lattice' = lat2 /\ T' = t2 /\ objs' = objs
    ELSE /\ objs' = [objs EXCEPT ![ref] = [lattice |-> lat2, T |-> t2]]
         /\ lattice' = lattice /\ T' = T

\* the slot of the result list a task's result is stored in: its job index
SlotOfArrival(w, count) == count + 1
SlotOf(w, count) == w

\* the lattices one whole sweep can leave, from site on (NoSite: past the end)
RECURSIVE SweepFrom(_, _, _, _)
SweepFrom(lat, bc, Temp, site) ==
    IF site = NoSite THEN {lat}
    ELSE LET idx == NeighborIndices(bc, dimen, site[1], site[2])
             nb == [a \in 1..4 |-> NpRead(lat, dimen, idx[a])]
             E == E_flip(J, epsilon, lat[site], nb)
             us == IF NeedsDraw(E) THEN Draws ELSE {NoDraw}
         IN  UNION {SweepFrom(FlipIf(lat, site, flip_decider(E, k_B, Temp, u)),
                              bc, Temp, NextSite(dimen, site[1], site[2])) : u \in us}

Workers == DOMAIN wpc

\* lines 290-294: the pool is built and the tasks are handed over
CallTs(ts, n2, bc) ==
    /\ pc = "idle"
    /\ op' = "Ts" /\ BC' = bc
    /\ Ts' = ts /\ nArg' = n2
    /\ tsPre' = [lattice |-> lattice, T |-> T]
    /\ arrived' = 0
    /\ IF Len(ts) = 0
       THEN \* multiprocessing.Pool(processes=0) raises ValueError
            /\ RaiseTo("ValueError")
            /\ UNCHANGED <<objs, wpc, wk, wM, slots, wS, wView>>
       ELSE /\ pc' = "ts_wait"
            /\ objs' = [w \in 1..Len(ts) |-> [lattice |-> lattice, T |-> T]]
            /\ wpc' = [w \in 1..Len(ts) |-> "queued"]
            /\ wk' = [w \in 1..Len(ts) |-> 0]
            /\ wM' = [w \in 1..Len(ts) |-> 0]
            /\ slots' = [w \in 1..Len(ts) |-> NoValue]
            /\ wS' = [w \in 1..Len(ts) |-> <<>>]
            /\ wView' = [w \in 1..Len(ts) |-> [lattice |-> lattice, T |-> T]]
            /\ UNCHANGED <<sweepLocals, err>>
    /\ UNCHANGED <<inst, nsLocals, ret, drawn, hist, probe>>

\* a worker takes task w: lines 254-259 of magnetization_Ns on its object
WorkerStart(w) ==
    /\ pc = "ts_wait" /\ wpc[w] = "queued"
    /\ PutObj(SelfOf(w), ObjLattice(SelfOf(w)), Ts[w])
    /\ wView' = [wView EXCEPT ![w] = [lattice |-> ObjLattice(SelfOf(w)), T |-> Ts[w]]]
    /\ wpc' = [wpc EXCEPT ![w] = IF IntOf(nArg) < 1 THEN "InvalidSweepCount" ELSE "running"]
    /\ wM' = [wM EXCEPT ![w] = InitialM(ObjLattice(SelfOf(w)), dimen)]
    /\ UNCHANGED <<dimen, J, epsilon, k_B, ctl, sweepLocals, nsLocals, outcome, drawn,
                   hist, probe, Ts, nArg, wk, slots, arrived, tsPre, wS>>

\* lines 260-262 in the worker: one more sweep of its object, then M += total
WorkerSweep(w) ==
    /\ pc = "ts_wait" /\ wpc[w] = "running"
    /\ LoopContinues(wk[w], IntOf(nArg))
    /\ IF Recognized(BC)
       THEN \E lat2 \in SweepFrom(ObjLattice(SelfOf(w)), BC, ObjT(SelfOf(w)), <<0, 0>>) :
                /\ PutObj(SelfOf(w), lat2, ObjT(SelfOf(w)))
                /\ wView' = [wView EXCEPT ![w] = [lattice |-> lat2, T |-> ObjT(SelfOf(w))]]
                /\ wk' = [wk EXCEPT ![w] = wk[w] + 1]
                /\ wM' = [wM EXCEPT ![w] = wM[w] + summary(lat2, dimen)[3]]
                /\ wS' = [wS EXCEPT ![w] = Append(wS[w], SumCells(lat2, dimen))]
                /\ UNCHANGED wpc
       ELSE /\ wpc' = [wpc EXCEPT ![w] = "InvalidBoundaryCondition"]
            /\ UNCHANGED <<lattice, T, objs, wk, wM, wS, wView>>
    /\ UNCHANGED <<dimen, J, epsilon, k_B, ctl, sweepLocals, nsLocals, outcome, drawn,
                   hist, probe, Ts, nArg, slots, arrived, tsPre>>

\* line 263 in the worker; the result travels back and is stored by job index
WorkerReturn(w) ==
    /\ pc = "ts_wait" /\ wpc[w] = "running"
    /\ ~LoopContinues(wk[w], IntOf(nArg))
    /\ wpc' = [wpc EXCEPT ![w] = "finished"]
    /\ slots' = [slots EXCEPT ![SlotOf(w, arrived)] = TrueDiv(wM[w], IntOf(nArg))]
    /\ arrived' = arrived + 1
    /\ UNCHANGED <<inst, ctl, sweepLocals, nsLocals, outcome, drawn, hist, probe,
                   Ts, nArg, objs, wk, wM, poolHist>>

Failed(w) == wpc[w] \in {"InvalidSweepCount", "InvalidBoundaryCondition"}

\* starmap returns the list, or raises what a task raised; line 295
TsReturn ==
    /\ pc = "ts_wait"
    /\ \A w \in Workers : wpc[w] = "finished" \/ Failed(w)
    /\ IF \E w \in Workers : Failed(w)
       THEN /\ RaiseTo(wpc[CHOOSE w \in Workers : Failed(w)])
            /\ UNCHANGED ret
       ELSE /\ ret' = slots
            /\ pc' = "done"
            /\ UNCHANGED <<sweepLocals, err>>
    /\ UNCHANGED <<inst, op, BC, nsLocals, drawn, hist, aux>>

TsArgs == UNION {[1..m -> Temps] : m \in 0..MaxTs}

InitTs ==
    \E dim \in Shapes(MaxTsCells) : \E lat \in InitLattices(dim) :
    \E Jv \in {Broadcast(1), Broadcast(-1)} : \E eps \in Fields : \E Temp \in Temps :
        Construct(dim, lat, Jv, eps, Temp) /\ pE = 0

NextTs ==
    \/ \E ts \in TsArgs : \E n2 \in NArgs : \E bc \in BCs : CallTs(ts, n2, bc)
    \/ \E w \in Workers : WorkerStart(w)
    \/ \E w \in Workers : WorkerSweep(w)
    \/ \E w \in Workers : WorkerReturn(w)
    \/ TsReturn
    \/ Continue

SpecTs == InitTs /\ [][NextTs]_vars

\* ================================================================ claims
InSweep == pc \in {"sweep_site", "sweep_decide"}
SweepCalled == (pc = "idle" /\ op' = "sweep") \/ (pc = "ns_loop" /\ k' = k + 1)

\* C3: a sweep call whose boundary selector is neither 'OBC' nor 'PBC' raises
\* the invalid-boundary-condition error in the call step itself, with every
\* lattice cell as before the call; no site is ever processed under such a
\* selector and no random draw was made when the error is raised.
C3_InvalidBCRaisesUntouched ==
    /\ [][(SweepCalled /\ BC' \notin {"OBC", "PBC"}) =>
            /\ err' = "InvalidBoundaryCondition" /\ pc' = "done"
            /\ lattice' = lattice /\ drawn' = drawn /\ visited' = <<>>]_vars
    /\ [](InSweep => BC \in {"OBC", "PBC"})
    /\ [](err = "InvalidBoundaryCondition" =>
            drawn = "none" /\ visited = <<>> /\ S = <<>> /\ ret = NoValue)

C3_Witness ==
    /\ pc = "done" /\ op = "sweep" /\ BC = "XBC"
    /\ err = "InvalidBoundaryCondition" /\ lattice # lattice0

\* C4: magnetization_Ns called with a sweep count below 1 (nArg, in halves,
\* below 2, so that int(n) < 1) raises the invalid-sweep-count error in the
\* call step: no sweep has run, no lattice cell is changed, nothing is
\* returned.
C4_InvalidCountRaisesFirst ==
    /\ [][(pc = "idle" /\ op' = "Ns" /\ nArg' < 2) =>
            /\ err' = "InvalidSweepCount" /\ pc' = "done"
            /\ lattice' = lattice /\ ret' = NoValue]_vars
    /\ []((op = "Ns" /\ nArg < 2) =>
            /\ pc = "done" /\ err = "InvalidSweepCount"
            /\ visited = <<>> /\ S = <<>> /\ drawn = "none" /\ ret = NoValue)

C4_Witness ==
    /\ op = "Ns" /\ nArg = 1 /\ err = "InvalidSweepCount" /\ pc = "done"
    /\ BC = "OBC" /\ lattice # lattice0

\* C6: in every reachable state the lattice has the shape it was constructed
\* with and each cell holds its constructed value or the negation of it.
C6_ShapeAndMagnitude ==
    /\ DOMAIN lattice = DOMAIN lattice0
    /\ Sites(dimen) = DOMAIN lattice0
    /\ \A s \in DOMAIN lattice0 : lattice[s] = lattice0[s] \/ lattice[s] = -lattice0[s]

C6_Witness ==
    /\ pc = "done" /\ op = "Ns" /\ err = "none" /\ Len(S) = 2
    /\ dimen = <<2, 2>>
    /\ \E s \in DOMAIN lattice0 : lattice0[s] = -2 /\ lattice[s] = 2
    /\ \E s \in DOMAIN lattice0 : lattice[s] = lattice0[s]

\* C7: a magnetization_Ns call with a sweep count n >= 1 (nArg >= 2 in
\* halves) and a recognized boundary policy ends by returning; the instance
\* temperature is then the T passed, exactly n sweeps have completed, and the
\* value returned is (S_1 + ... + S_n) / n for the lattice totals S_k taken
\* right after each sweep.
C7_MeanOfSweepTotals ==
    (op = "Ns" /\ pc = "done" /\ nArg >= 2 /\ BC \in {"OBC", "PBC"}) =>
        /\ err = "none"
        /\ T = argT
        /\ 2 * n <= nArg /\ nArg < 2 * n + 2
        /\ Len(S) = n
        /\ Len(ret) = 2 /\ ret[2] > 0
        /\ ret[1] * n = SumSeq(S) * ret[2]

C7_Witness ==
    /\ op = "Ns" /\ pc = "done" /\ err = "none" /\ n = 2
    /\ S = <<0, -2>> /\ ret = <<-1, 1>> /\ SumCells(lattice0, dimen) = 4

\* the neighbour values the claim names, in the order left, right, up, down
Cell(lat, dim, i, j) ==
    IF i \in 0..(dim[1] - 1) /\ j \in 0..(dim[2] - 1) THEN lat[<<i, j>>] ELSE 0
WrappedNeighbors(lat, dim, i, j) ==
    <<lat[<<i, (j - 1 + dim[2]) % dim[2]>>], lat[<<i, (j + 1) % dim[2]>>],
      lat[<<(i - 1 + dim[1]) % dim[1], j>>], lat[<<(i + 1) % dim[1], j>>]>>
OpenNeighbors(lat, dim, i, j) ==
    <<Cell(lat, dim, i, j - 1), Cell(lat, dim, i, j + 1),
      Cell(lat, dim, i - 1, j), Cell(lat, dim, i + 1, j)>>

\* C8: at every site of every lattice the 4-tuple sweep builds is, under PBC,
\* the values at the wrapped positions and, under OBC, the values at the four
\* adjacent positions with 0 for a position outside the grid; no read falls
\* outside the grid (no IndexError).
C8_NeighborsInGrid ==
    /\ err # "IndexError"
    /\ pc = "sweep_decide" =>
          spin_neighbor = IF BC = "PBC" THEN WrappedNeighbors(lattice, dimen, n_i, n_j)
                          ELSE OpenNeighbors(lattice, dimen, n_i, n_j)

C8_Witness ==
    /\ pc = "sweep_decide" /\ BC = "PBC" /\ dimen = <<2, 2>> /\ n_i = 1 /\ n_j = 0
    /\ lattice[<<1, 1>>] = -1 /\ lattice[<<0, 0>>] = 1
    /\ spin_neighbor = <<-1, -1, 1, 1>>

\* C9: a sweep decides once per site in row-major order; each accepted flip
\* is in the lattice (that cell negated, no other cell touched) when the step
\* ends, so the values read for the next site are those of the lattice as it
\* then is.
C9_RowMajorInPlace ==
    /\ [](Len(visited) <= Len(RowMajor(dimen)) /\ visited = SubSeq(RowMajor(dimen), 1, Len(visited)))
    /\ [](InSweep => <<n_i, n_j>> = RowMajor(dimen)[Len(visited) + 1])
    /\ []((pc = "ns_acc" \/ (pc = "done" /\ op = "sweep" /\ err = "none")) =>
            visited = RowMajor(dimen))
    /\ [][pc = "sweep_decide" =>
            /\ visited' = Append(visited, <<n_i, n_j>>)
            /\ lattice' = IF accepted'
                          THEN [lattice EXCEPT ![<<n_i, n_j>>] = -lattice[<<n_i, n_j>>]]
                          ELSE lattice]_vars
    /\ [](pc = "sweep_decide" =>
            /\ spin_ij = lattice[<<n_i, n_j>>]
            /\ spin_neighbor = [a \in 1..4 |->
                   NpRead(lattice, dimen, NeighborIndices(BC, dimen, n_i, n_j)[a])])

C9_Witness ==
    /\ pc = "sweep_decide" /\ dimen = <<2, 2>> /\ n_i = 1 /\ n_j = 1
    /\ visited = <<<<0, 0>>, <<0, 1>>, <<1, 0>>>>
    /\ accepted /\ lattice0 = AllUp(dimen) /\ op = "sweep"
    /\ lattice = [s \in Sites(dimen) |-> IF s = <<1, 1>> THEN 1 ELSE -1]
    /\ spin_neighbor = <<-1, -1, -1, -1>>


\* the original statement of C1: with positive coupling a sweep of the
\* all +1 lattice at T = 0 leaves every cell +1
C1_Original ==
    (pc = "done" /\ op = "sweep" /\ err = "none" /\ J[1] > 0) => lattice = AllUp(dimen)

\* C1 (amended): on the 4 x 4 lattice of +1 spins with zero field, negative
\* scalar coupling and T = 0, no spin is flipped at any point of a sweep in
\* which every uniform draw is strictly positive.
C1_NegativeCouplingNoFlip ==
    (op = "sweep" /\ J[1] < 0 /\ drawn # "zero") => lattice = AllUp(dimen)

C1_Witness ==
    /\ pc = "done" /\ op = "sweep" /\ err = "none" /\ J[1] < 0 /\ drawn = "positive"
    /\ Len(visited) = 16 /\ lattice = AllUp(dimen) /\ T = 0 /\ epsilon = 0

\* the original statement of C2: at T = 0 flip_decider returns true for
\* E_flip < 0 and false for E_flip >= 0 whatever the draw, u = 0 included
C2_Original ==
    (T = 0 /\ pAns # "unasked") =>
        /\ pE < 0 => pAns = "True"
        /\ pE > 0 => pAns = "False"
        /\ pE = 0 => pAns = "False"

\* C2 (amended): at T = 0 flip_decider returns true for every E_flip < 0
\* (without a draw), false for E_flip = 0, and for E_flip > 0 false for every
\* draw u > 0 but true for the draw u = 0.
C2_ZeroTemperatureDecider ==
    (T = 0 /\ pAns # "unasked") =>
        /\ pE < 0 => (pAns = "True" /\ pU = NoDraw)
        /\ pE > 0 => (pAns = "True" <=> pU = 0)
        /\ pE = 0 => pAns = "False"

C2_Witness == T = 0 /\ pE = 2 /\ pU = 1 /\ pAns = "False"

\* twice the lattice energy H of the claim, for a scalar coupling J[1]
Energy2(lat, dim, bc, Jv, eps) ==
    SumSeq([q \in 1..(dim[1] * dim[2]) |->
        LET s == RowMajor(dim)[q]
            nb == IF bc = "PBC" THEN WrappedNeighbors(lat, dim, s[1], s[2])
                  ELSE OpenNeighbors(lat, dim, s[1], s[2])
        IN  lat[s] * Jv[1] * (nb[1] + nb[2] + nb[3] + nb[4]) + 2 * eps * lat[s]])

\* C10: at T = 0, scalar J, positive draws and no site its own neighbour,
\* every step that changes the lattice strictly lowers H, and from some point
\* on no sweep changes the lattice any more.
C10_EnergyDescends ==
    /\ [][lattice' # lattice =>
            Energy2(lattice', dimen, BC, J, epsilon) < Energy2(lattice, dimen, BC, J, epsilon)]_vars
    /\ <>[][lattice' = lattice]_vars

C10_Witness ==
    /\ pc = "done" /\ op = "sweep" /\ BC = "PBC" /\ dimen = <<2, 2>> /\ T = 0
    /\ drawn = "positive" /\ lattice0 = AllUp(dimen) /\ lattice # lattice0
    /\ Energy2(lattice, dimen, BC, J, epsilon) < Energy2(lattice0, dimen, BC, J, epsilon)


====
